---- MODULE Spec2Model ----
(***************************************************************************)
(* Model of the embedding-backed similarity retrieval core:                *)
(*   app/embeddings.py  (SimpleHashEmbeddingProvider, cosine_similarity)   *)
(*   app/storage.py     (FileEmbeddingStore.save / all)                    *)
(*   app/retrieval.py   (JiraRetriever.index_issue / bulk_index /          *)
(*                       list_indexed / find_similar)                      *)
(*                                                                         *)
(* The store directory is modelled file by file: every record has a        *)
(* metadata unit <id>.json and a vector unit <id>.npy, each of which is    *)
(* absent, partially written or complete.  Callers run concurrently and    *)
(* every file system access of save() and all() is a step of its own.      *)
(***************************************************************************)
EXTENDS Integers, Sequences, FiniteSets, TLC

\* ------------------------------------------------------------------ bounds
MaxIds == 2          \* number of identifiers uuid4 hands out in a behaviour
Dim == 2             \* dimension of the embedding vectors
Scale == 8           \* fixed-point representation of 1.0 in a vector
Grain == 2           \* spacing of the values float32 can represent
ScoreScale == 10     \* fixed-point representation of a score of 1.0

Procs == {"c1", "c2"}          \* concurrent callers of the retriever
Ids == 1..MaxIds               \* identifiers str(uuid.uuid4()) can return
Foreign == 0                   \* stem of a file no save() has written
Names == {Foreign} \cup Ids    \* file stems in base_dir

NoneVal == "<None>"            \* Python None for an Optional[str]
Missing == "<missing>"         \* key absent from a metadata object
TempQuery == -1                \* the id "temp_query" of the transient query record
NoID == -2                     \* metadata.get("id") of an object without an id
NoFile == "absent"
Partial == "partial"
Complete == "complete"

\* ------------------------------------------------------------ pure helpers
RECURSIVE SumSeq(_)
SumSeq(s) == IF s = <<>> THEN 0 ELSE Head(s) + SumSeq(Tail(s))

\* floor of the square root, by linear search
RECURSIVE ISqrtFrom(_, _)
ISqrtFrom(n, r) == IF (r + 1) * (r + 1) > n THEN r ELSE ISqrtFrom(n, r + 1)

ISqrt(n) == ISqrtFrom(n, 0)

\* np.array(x, dtype=np.float32) on one value: round to the nearest
\* representable value
F32(v) == ((v + (Grain \div 2)) \div Grain) * Grain

F32Vec(vec) == [i \in 1..Len(vec) |-> F32(vec[i])]

\* text.lower().split() for the texts used as summaries and descriptions
Tokens(text) ==
    CASE text = "Login fails" -> <<"login", "fails">>
      [] text = "login"       -> <<"login">>
      [] text = "fails"       -> <<"fails">>
      [] text = "password"    -> <<"password">>
      [] OTHER                -> <<>>

\* f"{summary}\n{description or ''}" followed by lower().split(): the
\* separator is whitespace, so the tokens are those of the two parts
TextTokens(item) ==
    Tokens(item.summary) \o
    (IF item.description = NoneVal THEN <<>> ELSE Tokens(item.description))

\* hash(token): Python salts str hashes with a per-process seed
HashOf(seed, token) ==
    CASE token = "login"    -> IF seed = 0 THEN 6 ELSE -3
      [] token = "fails"    -> IF seed = 0 THEN 7 ELSE 11
      [] token = "password" -> IF seed = 0 THEN -5 ELSE 4
      [] OTHER              -> seed

Seeds == {0, 1}

\* vec[idx] += 1.0 for every token, idx = hash(token) % dim
HashCounts(seed, toks) ==
    [i \in 1..Dim |->
        Cardinality({k \in 1..Len(toks) : (HashOf(seed, toks[k]) % Dim) + 1 = i})]

\* vec / norm when norm > 0, on float32 values
Normalize(counts) ==
    LET n2 == SumSeq([i \in 1..Len(counts) |-> counts[i] * counts[i]])
    IN  IF n2 = 0 THEN counts
        ELSE [i \in 1..Len(counts) |->
                F32(ISqrt((counts[i] * counts[i] * Scale * Scale) \div n2))]

\* SimpleHashEmbeddingProvider.embed
HashEmbed(seed, toks) == Normalize(HashCounts(seed, toks))

\* a remote provider (OpenAI, Azure): a fixed vector per text, made of
\* 64-bit floats that float32 need not represent
RemoteEmbed(toks) ==
    [i \in 1..Dim |-> 3 * HashCounts(0, toks)[i] + 1]

Embed(prov, seed, toks) ==
    IF prov = "hash" THEN HashEmbed(seed, toks) ELSE RemoteEmbed(toks)

\* cosine_similarity
CosineSimilarity(vec_a, vec_b) ==
    LET a == F32Vec(vec_a)
        b == F32Vec(vec_b)
    IN  IF Len(a) # Len(b) \/ Len(a) = 0 THEN 0
        ELSE LET dot == SumSeq([i \in 1..Len(a) |-> a[i] * b[i]])
                 na  == SumSeq([i \in 1..Len(a) |-> a[i] * a[i]])
                 nb  == SumSeq([i \in 1..Len(b) |-> b[i] * b[i]])
             IN  IF na * nb = 0 THEN 0
                 ELSE LET mag == ISqrt((dot * dot * ScoreScale * ScoreScale)
                                          \div (na * nb))
                      IN  IF dot < 0 THEN -mag ELSE mag

\* ------------------------------------------------------------------ inputs
Items ==
    { [jira_key |-> NoneVal,  summary |-> "login",       description |-> "fails"],
      [jira_key |-> "PROJ-2", summary |-> "password",    description |-> NoneVal] }

TopKs == {-1, 0, 1, 2}
MinScores == {0, ScoreScale - 2, ScoreScale + 1}
Providers == {"hash", "remote"}

\* ------------------------------------------------------------------- state
VARIABLES
    json,       \* json[n]: the metadata unit <n>.json
    npy,        \* npy[n]: the vector unit <n>.npy
    provider,   \* the configured EmbeddingProvider
    hashseed,   \* the str hash seed of the running process
    pc,         \* pc[p]: where caller p is in its operation
    call,       \* call[p]: the operation p runs and its arguments
    loc,        \* loc[p]: local variables of the operation
    ret,        \* ret[p]: what the operation returned
    saved,      \* saved[n]: arguments of the save() call that returned id n
    hist,       \* hist[p]: what p's current call has done so far
    nsaved,     \* number of save() calls that have returned
    prev        \* the latest find_similar(store_query=False) and its result,
                \* while no call other than a repetition of it has begun

vars == <<json, npy, provider, hashseed, pc, call, loc, ret, saved, hist,
          nsaved, prev>>

NoMeta == [id |-> NoID, jira_key |-> NoneVal, summary |-> Missing,
           description |-> NoneVal, legacy |-> FALSE]
NoJson == [st |-> NoFile, meta |-> NoMeta]
NoNpy == [st |-> NoFile, data |-> <<>>]
NoCall == [op |-> "none", items |-> <<>>, top_k |-> 0, min_score |-> 0,
           store_query |-> FALSE]
NoLoc == [vec |-> <<>>, todo |-> <<>>, cur |-> NoMeta, issues |-> <<>>,
          id |-> NoID, indexed |-> <<>>, candidates |-> <<>>]
NoDebug == [total_issues_in_index |-> 0, checked_issues |-> 0,
            passed_min_score |-> 0, max_score_found |-> 0,
            min_score_found |-> 0, avg_score |-> 0]
NoRet == [query_id |-> NoID, candidates |-> <<>>, records |-> <<>>,
          debug |-> NoDebug]
NoSave == [jira_key |-> NoneVal, summary |-> Missing, description |-> NoneVal,
           embedding |-> <<>>]
NoHist == [wrote |-> {}, seen |-> {}, skipped |-> {}, embeds |-> 0,
           snap |-> {}]
NoPrev == [valid |-> FALSE, call |-> NoCall, candidates |-> <<>>]

\* what base_dir may hold under the stem Foreign when the process starts:
\* nothing, or the remains of an interrupted save(), or a file that another
\* program or an older version of this one has left
ForeignFiles ==
    LET meta == [NoMeta EXCEPT !.id = Foreign, !.summary = "login"]
        vector == [st |-> Complete, data |-> [i \in 1..Dim |-> Scale]]
    IN  { <<NoJson, NoNpy>>,
          \* not JSON: an empty or truncated metadata file
          <<[st |-> Partial, meta |-> NoMeta], NoNpy>>,
          \* a JSON object without "id"
          <<[st |-> Complete, meta |-> [meta EXCEPT !.id = NoID]], vector>>,
          \* a JSON object without "summary"
          <<[st |-> Complete, meta |-> [meta EXCEPT !.summary = Missing]], vector>>,
          \* the old single-file format, embedding inside the JSON object
          <<[st |-> Complete, meta |-> [meta EXCEPT !.legacy = TRUE]], vector>>,
          \* metadata without its vector file
          <<[st |-> Complete, meta |-> meta], NoNpy>>,
          \* metadata with a truncated vector file
          <<[st |-> Complete, meta |-> meta], [st |-> Partial, data |-> <<>>]>> }

\* the configurations the process starts in: the hash provider over a
\* directory of its own, or a remote provider over a directory with a
\* file of ForeignFiles
Init ==
    /\ provider \in Providers
    /\ hashseed \in (IF provider = "hash" THEN Seeds ELSE {0})
    /\ \E f \in (IF provider = "hash" THEN {<<NoJson, NoNpy>>} ELSE ForeignFiles) :
          /\ json = [n \in Names |-> IF n = Foreign THEN f[1] ELSE NoJson]
          /\ npy = [n \in Names |-> IF n = Foreign THEN f[2] ELSE NoNpy]
    /\ pc = [p \in Procs |-> "idle"]
    /\ call = [p \in Procs |-> NoCall]
    /\ loc = [p \in Procs |-> NoLoc]
    /\ ret = [p \in Procs |-> NoRet]
    /\ saved = [n \in Ids |-> NoSave]
    /\ hist = [p \in Procs |-> NoHist]
    /\ nsaved = 0
    /\ prev = NoPrev

\* ----------------------------------------------------------- the directory
RECURSIVE SumOver(_, _)
SumOver(S, f) ==
    IF S = {} THEN 0
    ELSE LET x == CHOOSE y \in S : TRUE IN f[x] + SumOver(S \ {x}, f)

\* sorted(self.base_dir.glob("*.json"))
RECURSIVE SortedSeq(_)
SortedSeq(S) ==
    IF S = {} THEN <<>>
    ELSE LET m == CHOOSE x \in S : \A y \in S : x <= y
         IN  <<m>> \o SortedSeq(S \ {m})

GlobJson == SortedSeq({n \in Names : json[n].st # NoFile})

\* an id scheme that can return a value it has returned before
Uuid4Colliding == Ids

\* str(uuid.uuid4()): a value no earlier call has returned
Uuid4 == {n \in Ids : json[n].st = NoFile}

\* saves the call of p still has to make
Pending(p) ==
    IF pc[p] \in {"idle", "done", "failed"} THEN 0
    ELSE IF call[p].op \in {"index", "bulk"}
         THEN Len(call[p].items) - Len(loc[p].indexed)
                - (IF pc[p] \in {"write_meta", "open_npy", "write_npy"} THEN 1 ELSE 0)
    ELSE IF call[p].op = "find" /\ call[p].store_query
              /\ pc[p] \notin {"write_meta", "open_npy", "write_npy"} THEN 1
    ELSE 0

\* the identifiers left for a call that saves n records
Room(n) ==
    Cardinality(Uuid4) - SumOver(Procs, [p \in Procs |-> Pending(p)]) >= n

\* ---------------------------------------------------------- retriever calls
BulkInputs == {<<a, b>> : a \in Items, b \in Items}

Begin(p, c) ==
    /\ pc[p] = "idle"
    /\ call' = [call EXCEPT ![p] = c]
    /\ loc' = [loc EXCEPT ![p] = NoLoc]
    /\ ret' = [ret EXCEPT ![p] = NoRet]
    /\ hist' = [hist EXCEPT ![p] = NoHist]
    /\ prev' = IF prev.valid /\ prev.call = c THEN prev ELSE NoPrev
    /\ UNCHANGED <<json, npy, provider, hashseed, saved, nsaved>>

\* JiraRetriever.index_issue is entered
StartIndex(p) ==
    \E item \in Items :
        /\ Room(1)
        /\ pc' = [pc EXCEPT ![p] = "embed"]
        /\ Begin(p, [NoCall EXCEPT !.op = "index", !.items = <<item>>])

\* JiraRetriever.bulk_index is entered
StartBulk(p) ==
    \E items \in BulkInputs :
        /\ Room(Len(items))
        /\ pc' = [pc EXCEPT ![p] = "embed"]
        /\ Begin(p, [NoCall EXCEPT !.op = "bulk", !.items = items])

\* JiraRetriever.list_indexed is entered
StartList(p) ==
    /\ pc' = [pc EXCEPT ![p] = "glob"]
    /\ Begin(p, [NoCall EXCEPT !.op = "list"])

\* JiraRetriever.find_similar is entered
StartFind(p) ==
    \E query \in Items, top_k \in TopKs, min_score \in MinScores,
       store_query \in BOOLEAN :
        /\ store_query => Room(1)
        /\ pc' = [pc EXCEPT ![p] = "embed"]
        /\ Begin(p, [op |-> "find", items |-> <<query>>, top_k |-> top_k,
                     min_score |-> min_score, store_query |-> store_query])

\* a loop that takes the items from the last to the first
CurrentItemReversed(p) == call[p].items[Len(call[p].items) - Len(loc[p].indexed)]

\* the item the call is working on
CurrentItem(p) == call[p].items[Len(loc[p].indexed) + 1]

\* self.embedder.embed(text) returns: index_issue goes on to store.save,
\* find_similar to store.all
EmbedOk(p) ==
    /\ pc[p] = "embed"
    /\ loc' = [loc EXCEPT ![p].vec =
                  Embed(provider, hashseed, TextTokens(CurrentItem(p)))]
    /\ pc' = [pc EXCEPT ![p] = IF call[p].op = "find" THEN "glob" ELSE "save"]
    /\ hist' = [hist EXCEPT ![p].embeds = @ + 1]
    /\ UNCHANGED <<json, npy, provider, hashseed, call, ret, saved, nsaved, prev>>

\* a provider failure that is retried once before it is raised
EmbedFailRetried(p) ==
    /\ pc[p] = "embed"
    /\ provider = "remote"
    /\ pc' = [pc EXCEPT ![p] = IF hist[p].embeds = 0 THEN "embed" ELSE "failed"]
    /\ hist' = [hist EXCEPT ![p].embeds = @ + 1]
    /\ UNCHANGED <<json, npy, provider, hashseed, call, loc, ret, saved, nsaved, prev>>

\* self.embedder.embed(text) raises (a remote provider): nothing catches it
\* in index_issue, bulk_index or find_similar
EmbedFail(p) ==
    /\ pc[p] = "embed"
    /\ provider = "remote"
    /\ pc' = [pc EXCEPT ![p] = "failed"]
    /\ hist' = [hist EXCEPT ![p].embeds = @ + 1]
    /\ UNCHANGED <<json, npy, provider, hashseed, call, loc, ret, saved, nsaved, prev>>

\* ------------------------------------------------- FileEmbeddingStore.save
\* issue_id = str(uuid.uuid4()); write_text opens <id>.json for writing
SaveOpenMeta(p) ==
    /\ pc[p] = "save"
    /\ \E id \in Uuid4 :
          /\ loc' = [loc EXCEPT ![p].id = id]
          /\ json' = [json EXCEPT ![id] = [st |-> Partial, meta |-> NoMeta]]
          /\ hist' = [hist EXCEPT ![p].wrote = @ \cup {id}]
    /\ pc' = [pc EXCEPT ![p] = "write_meta"]
    /\ prev' = NoPrev
    /\ UNCHANGED <<npy, provider, hashseed, call, ret, saved, nsaved>>

\* a metadata object that loses the caller's key
MetadataNoKey(id, item) ==
    [id |-> id, jira_key |-> NoneVal, summary |-> item.summary,
     description |-> item.description, legacy |-> FALSE]

\* metadata = {"id": ..., "jira_key": ..., "summary": ..., "description": ...}
Metadata(id, item) ==
    [id |-> id, jira_key |-> item.jira_key, summary |-> item.summary,
     description |-> item.description, legacy |-> FALSE]

\* write_text writes json.dumps(metadata) and closes the file
SaveWriteMeta(p) ==
    /\ pc[p] = "write_meta"
    /\ json' = [json EXCEPT ![loc[p].id] =
                  [st |-> Complete, meta |-> Metadata(loc[p].id, CurrentItem(p))]]
    /\ pc' = [pc EXCEPT ![p] = "open_npy"]
    /\ prev' = NoPrev
    /\ UNCHANGED <<npy, provider, hashseed, call, loc, ret, saved, nsaved, hist>>

\* np.save opens <id>.npy for writing
SaveOpenNpy(p) ==
    /\ pc[p] = "open_npy"
    /\ npy' = [npy EXCEPT ![loc[p].id] = [st |-> Partial, data |-> <<>>]]
    /\ pc' = [pc EXCEPT ![p] = "write_npy"]
    /\ prev' = NoPrev
    /\ UNCHANGED <<json, provider, hashseed, call, loc, ret, saved, nsaved, hist>>

\* the scoring loop: one SimilarIssue per record with score >= min_score
RECURSIVE Scored(_, _, _)
Scored(issues, query_vec, min_score) ==
    IF issues = <<>> THEN <<>>
    ELSE LET issue == Head(issues)
             score == CosineSimilarity(query_vec, issue.embedding)
             rest == Scored(Tail(issues), query_vec, min_score)
         IN  IF score < min_score THEN rest
             ELSE <<[id |-> issue.id, jira_key |-> issue.jira_key,
                     summary |-> issue.summary,
                     description |-> issue.description,
                     score |-> score]>> \o rest

\* a descending sort that is not stable: a candidate goes before those of
\* equal score already placed
RECURSIVE InsertBeforeEqual(_, _)
InsertBeforeEqual(sorted, c) ==
    IF sorted = <<>> THEN <<c>>
    ELSE IF Head(sorted).score > c.score
         THEN <<Head(sorted)>> \o InsertBeforeEqual(Tail(sorted), c)
         ELSE <<c>> \o sorted

\* list.sort(key=score, reverse=True): stable, descending
RECURSIVE InsertByScore(_, _)
InsertByScore(sorted, c) ==
    IF sorted = <<>> THEN <<c>>
    ELSE IF Head(sorted).score >= c.score
         THEN <<Head(sorted)>> \o InsertByScore(Tail(sorted), c)
         ELSE <<c>> \o sorted

\* list.sort without reverse=True: stable, ascending
RECURSIVE InsertAscending(_, _)
InsertAscending(sorted, c) ==
    IF sorted = <<>> THEN <<c>>
    ELSE IF Head(sorted).score <= c.score
         THEN <<Head(sorted)>> \o InsertAscending(Tail(sorted), c)
         ELSE <<c>> \o sorted

RECURSIVE SortAscending(_)
SortAscending(cands) ==
    IF cands = <<>> THEN <<>>
    ELSE InsertAscending(SortAscending(SubSeq(cands, 1, Len(cands) - 1)),
                         cands[Len(cands)])

RECURSIVE SortByScore(_)
SortByScore(cands) ==
    IF cands = <<>> THEN <<>>
    ELSE InsertByScore(SortByScore(SubSeq(cands, 1, Len(cands) - 1)),
                       cands[Len(cands)])

\* candidates[:top_k]
PySlice(s, k) ==
    IF k >= 0 THEN SubSeq(s, 1, IF k < Len(s) THEN k ELSE Len(s))
    ELSE SubSeq(s, 1, IF Len(s) + k > 0 THEN Len(s) + k ELSE 0)

\* all_scores: the score of every record of the snapshot, in scan order
AllScores(issues, query_vec) ==
    [i \in 1..Len(issues) |-> CosineSimilarity(query_vec, issues[i].embedding)]

\* max(all_scores) if all_scores else 0.0
MaxScore(scores) ==
    IF scores = <<>> THEN 0
    ELSE CHOOSE m \in {scores[i] : i \in 1..Len(scores)} :
            \A i \in 1..Len(scores) : scores[i] <= m

\* min(all_scores) if all_scores else 0.0
MinScore(scores) ==
    IF scores = <<>> THEN 0
    ELSE CHOOSE m \in {scores[i] : i \in 1..Len(scores)} :
            \A i \in 1..Len(scores) : scores[i] >= m

\* sum(all_scores) / len(all_scores) if all_scores else 0.0
AvgScore(scores) ==
    IF scores = <<>> THEN 0 ELSE SumSeq(scores) \div Len(scores)

\* debug_info with passed_min_score counted after the truncation to top_k
DebugInfoCountsReturned(issues, query_vec, candidates, top_k) ==
    LET scores == AllScores(issues, query_vec)
    IN  [total_issues_in_index |-> Len(issues),
         checked_issues |-> Len(issues),
         passed_min_score |-> IF top_k >= 0 /\ top_k < Len(candidates)
                              THEN top_k ELSE Len(candidates),
         max_score_found |-> MaxScore(scores),
         min_score_found |-> MinScore(scores),
         avg_score |-> AvgScore(scores)]

\* debug_info = {...}
DebugInfo(issues, query_vec, candidates, top_k) ==
    LET scores == AllScores(issues, query_vec)
    IN  [total_issues_in_index |-> Len(issues),
         checked_issues |-> Len(issues),
         passed_min_score |-> Len(candidates),
         max_score_found |-> MaxScore(scores),
         min_score_found |-> MinScore(scores),
         avg_score |-> AvgScore(scores)]

\* find_similar as it would be if it scored after store.save: the record of
\* the query is among the records it ranks
FindReturnScoredAfterSave(p, candidates, query_id) ==
    LET item == call[p].items[1]
        issues == IF query_id = TempQuery THEN loc[p].issues
                  ELSE Append(loc[p].issues,
                              [id |-> query_id, jira_key |-> item.jira_key,
                               summary |-> item.summary,
                               description |-> item.description,
                               embedding |-> F32Vec(loc[p].vec)])
        ranked == SortByScore(Scored(issues, loc[p].vec, call[p].min_score))
    IN  [NoRet EXCEPT
            !.query_id = query_id,
            !.candidates = PySlice(ranked, call[p].top_k),
            !.debug = DebugInfo(issues, loc[p].vec, ranked, call[p].top_k)]

\* find_similar returns (query_issue, candidates[:top_k], debug_info)
FindReturn(p, candidates, query_id) ==
    [NoRet EXCEPT
        !.query_id = query_id,
        !.candidates = PySlice(candidates, call[p].top_k),
        !.debug = DebugInfo(loc[p].issues, loc[p].vec, candidates,
                            call[p].top_k)]

\* np.save writes the float32 array and closes the file; save() returns the
\* record, and with it index_issue, one round of bulk_index, or find_similar
SaveWriteNpy(p) ==
    /\ pc[p] = "write_npy"
    /\ LET id == loc[p].id
           item == CurrentItem(p)
           record == [id |-> id, jira_key |-> item.jira_key,
                      summary |-> item.summary,
                      description |-> item.description,
                      embedding |-> loc[p].vec]
           indexed == Append(loc[p].indexed, record)
       IN  /\ npy' = [npy EXCEPT ![id] =
                         [st |-> Complete, data |-> F32Vec(loc[p].vec)]]
           /\ nsaved' = nsaved + 1
           /\ saved' = [saved EXCEPT ![id] =
                          [jira_key |-> item.jira_key, summary |-> item.summary,
                           description |-> item.description,
                           embedding |-> loc[p].vec]]
           /\ IF call[p].op = "find"
              THEN /\ ret' = [ret EXCEPT ![p] = FindReturn(p, loc[p].candidates, id)]
                   /\ loc' = [loc EXCEPT ![p] = NoLoc]
                   /\ pc' = [pc EXCEPT ![p] = "done"]
              ELSE IF Len(indexed) < Len(call[p].items)
              THEN /\ loc' = [loc EXCEPT ![p] = [NoLoc EXCEPT !.indexed = indexed]]
                   /\ pc' = [pc EXCEPT ![p] = "embed"]
                   /\ UNCHANGED ret
              ELSE /\ ret' = [ret EXCEPT ![p] = [NoRet EXCEPT !.records = indexed]]
                   /\ loc' = [loc EXCEPT ![p] = NoLoc]
                   /\ pc' = [pc EXCEPT ![p] = "done"]
    /\ prev' = NoPrev
    /\ UNCHANGED <<json, provider, hashseed, call, hist>>

\* -------------------------------------------------- FileEmbeddingStore.all
\* glob without sorted(): the paths come in any order
GlobUnsorted(p) ==
    /\ pc[p] = "glob"
    /\ LET found == {n \in Names : json[n].st # NoFile}
           k == Cardinality(found)
       IN  \E order \in [1..k -> found] :
              /\ \A i, j \in 1..k : i # j => order[i] # order[j]
              /\ loc' = [loc EXCEPT ![p].todo = order, ![p].issues = <<>>]
    /\ hist' = [hist EXCEPT ![p].seen = {n \in Ids : saved[n] # NoSave}]
    /\ pc' = [pc EXCEPT ![p] = "read"]
    /\ UNCHANGED <<json, npy, provider, hashseed, call, ret, saved, nsaved, prev>>

\* for metadata_path in sorted(self.base_dir.glob("*.json"))
Glob(p) ==
    /\ pc[p] = "glob"
    /\ loc' = [loc EXCEPT ![p].todo = GlobJson, ![p].issues = <<>>]
    /\ hist' = [hist EXCEPT ![p].seen = {n \in Ids : saved[n] # NoSave}]
    /\ pc' = [pc EXCEPT ![p] = "read"]
    /\ UNCHANGED <<json, npy, provider, hashseed, call, ret, saved, nsaved, prev>>

\* the loop goes to its next path (continue, or the end of the body)
NextPath(p, issues) ==
    [loc[p] EXCEPT !.todo = Tail(@), !.cur = NoMeta, !.issues = issues]

\* the loop is over: all() returns, to list_indexed or to find_similar
ScanEnd(p) ==
    /\ pc[p] = "read"
    /\ loc[p].todo = <<>>
    /\ IF call[p].op = "list"
       THEN /\ ret' = [ret EXCEPT ![p] = [NoRet EXCEPT !.records = loc[p].issues]]
            /\ loc' = [loc EXCEPT ![p] = NoLoc]
            /\ pc' = [pc EXCEPT ![p] = "done"]
       ELSE /\ pc' = [pc EXCEPT ![p] = "score"]
            /\ UNCHANGED <<loc, ret>>
    /\ hist' = [hist EXCEPT ![p].snap = {n \in Ids : saved[n] # NoSave}]
    /\ UNCHANGED <<json, npy, provider, hashseed, call, saved, nsaved, prev>>

\* the loop body without its try/except: a file that is not JSON ends the
\* scan with an exception
ReadMetaStrict(p) ==
    /\ pc[p] = "read"
    /\ loc[p].todo # <<>>
    /\ LET f == json[Head(loc[p].todo)]
       IN  IF f.st # Complete
           THEN /\ pc' = [pc EXCEPT ![p] = "failed"]
                /\ UNCHANGED <<loc, hist>>
           ELSE IF f.meta.legacy \/ f.meta.id = NoID
           THEN /\ loc' = [loc EXCEPT ![p] = NextPath(p, loc[p].issues)]
                /\ hist' = [hist EXCEPT ![p].skipped = @ \cup {Head(loc[p].todo)}]
                /\ UNCHANGED pc
           ELSE /\ loc' = [loc EXCEPT ![p].cur = f.meta]
                /\ pc' = [pc EXCEPT ![p] = "exists"]
                /\ UNCHANGED hist
    /\ UNCHANGED <<json, npy, provider, hashseed, call, ret, saved, nsaved, prev>>

\* raw = read_text(); metadata = json.loads(raw); the checks on
\* "embedding" and on issue_id
ReadMeta(p) ==
    /\ pc[p] = "read"
    /\ loc[p].todo # <<>>
    /\ LET f == json[Head(loc[p].todo)]
       IN  IF f.st # Complete \/ f.meta.legacy \/ f.meta.id = NoID
           THEN /\ loc' = [loc EXCEPT ![p] = NextPath(p, loc[p].issues)]
                /\ hist' = [hist EXCEPT ![p].skipped = @ \cup {Head(loc[p].todo)}]
                /\ UNCHANGED pc
           ELSE /\ loc' = [loc EXCEPT ![p].cur = f.meta]
                /\ pc' = [pc EXCEPT ![p] = "exists"]
                /\ UNCHANGED hist
    /\ UNCHANGED <<json, npy, provider, hashseed, call, ret, saved, nsaved, prev>>

\* if not embedding_path.exists(): continue
CheckExists(p) ==
    /\ pc[p] = "exists"
    /\ IF npy[loc[p].cur.id].st = NoFile
       THEN /\ loc' = [loc EXCEPT ![p] = NextPath(p, loc[p].issues)]
            /\ hist' = [hist EXCEPT ![p].skipped = @ \cup {Head(loc[p].todo)}]
            /\ pc' = [pc EXCEPT ![p] = "read"]
       ELSE /\ pc' = [pc EXCEPT ![p] = "load"]
            /\ UNCHANGED <<loc, hist>>
    /\ UNCHANGED <<json, npy, provider, hashseed, call, ret, saved, nsaved, prev>>

\* a load that takes a truncated vector file for an empty array
LoadNpyTruncated(p) ==
    /\ pc[p] = "load"
    /\ LET m == loc[p].cur
           f == npy[m.id]
       IN  IF m.summary = Missing
           THEN /\ loc' = [loc EXCEPT ![p] = NextPath(p, loc[p].issues)]
                /\ hist' = [hist EXCEPT ![p].skipped = @ \cup {Head(loc[p].todo)}]
           ELSE /\ loc' = [loc EXCEPT ![p] =
                          NextPath(p, Append(loc[p].issues,
                              [id |-> m.id, jira_key |-> m.jira_key,
                               summary |-> m.summary,
                               description |-> m.description,
                               embedding |-> f.data]))]
                /\ UNCHANGED hist
    /\ pc' = [pc EXCEPT ![p] = "read"]
    /\ UNCHANGED <<json, npy, provider, hashseed, call, ret, saved, nsaved, prev>>

\* np.load(embedding_path).tolist() and StoredIssue(...); an exception of
\* either (truncated file, KeyError on "summary") skips the record
LoadNpy(p) ==
    /\ pc[p] = "load"
    /\ LET m == loc[p].cur
           f == npy[m.id]
       IN  IF f.st # Complete \/ m.summary = Missing
           THEN /\ loc' = [loc EXCEPT ![p] = NextPath(p, loc[p].issues)]
                /\ hist' = [hist EXCEPT ![p].skipped = @ \cup {Head(loc[p].todo)}]
           ELSE /\ loc' = [loc EXCEPT ![p] =
                          NextPath(p, Append(loc[p].issues,
                              [id |-> m.id, jira_key |-> m.jira_key,
                               summary |-> m.summary,
                               description |-> m.description,
                               embedding |-> f.data]))]
                /\ UNCHANGED hist
    /\ pc' = [pc EXCEPT ![p] = "read"]
    /\ UNCHANGED <<json, npy, provider, hashseed, call, ret, saved, nsaved, prev>>

\* --------------------------------------------- find_similar, after all()
\* a query that is saved only when it has candidates
PersistIfCandidates(p, candidates) == call[p].store_query /\ candidates # <<>>

\* if store_query: the query is saved, whatever the candidates are
Persist(p, candidates) == call[p].store_query

\* the scoring loop as it would be if it read the store again instead of
\* using the list that all() has returned
ScoreRereadsStore(p) ==
    /\ pc[p] = "score"
    /\ LET ids == SortedSeq({n \in Ids : saved[n] # NoSave})
           issues == [i \in 1..Len(ids) |->
                        [id |-> ids[i], jira_key |-> saved[ids[i]].jira_key,
                         summary |-> saved[ids[i]].summary,
                         description |-> saved[ids[i]].description,
                         embedding |-> npy[ids[i]].data]]
           cands == SortByScore(Scored(issues, loc[p].vec, call[p].min_score))
       IN  IF Persist(p, cands)
           THEN /\ loc' = [loc EXCEPT ![p].candidates = cands]
                /\ pc' = [pc EXCEPT ![p] = "save"]
                /\ UNCHANGED ret
           ELSE /\ ret' = [ret EXCEPT ![p] = FindReturn(p, cands, TempQuery)]
                /\ loc' = [loc EXCEPT ![p] = NoLoc]
                /\ pc' = [pc EXCEPT ![p] = "done"]
    /\ UNCHANGED <<json, npy, provider, hashseed, call, saved, nsaved, hist, prev>>

\* the scoring loop and the sort; without store_query the transient record
\* is returned at once
Score(p) ==
    /\ pc[p] = "score"
    /\ LET cands == SortByScore(Scored(loc[p].issues, loc[p].vec,
                                       call[p].min_score))
       IN  IF Persist(p, cands)
           THEN /\ loc' = [loc EXCEPT ![p].candidates = cands]
                /\ pc' = [pc EXCEPT ![p] = "save"]
                /\ UNCHANGED ret
           ELSE /\ ret' = [ret EXCEPT ![p] = FindReturn(p, cands, TempQuery)]
                /\ loc' = [loc EXCEPT ![p] = NoLoc]
                /\ pc' = [pc EXCEPT ![p] = "done"]
    /\ UNCHANGED <<json, npy, provider, hashseed, call, saved, nsaved, hist, prev>>

\* ------------------------------------------------------ the caller's side
\* the caller has its result, or its exception, and is free again
Return(p) ==
    /\ pc[p] \in {"done", "failed"}
    /\ pc' = [pc EXCEPT ![p] = "idle"]
    /\ call' = [call EXCEPT ![p] = NoCall]
    /\ loc' = [loc EXCEPT ![p] = NoLoc]
    /\ ret' = [ret EXCEPT ![p] = NoRet]
    /\ hist' = [hist EXCEPT ![p] = NoHist]
    /\ prev' = IF pc[p] = "done" /\ call[p].op = "find" /\ ~call[p].store_query
               THEN [valid |-> TRUE, call |-> call[p],
                     candidates |-> ret[p].candidates]
               ELSE NoPrev
    /\ UNCHANGED <<json, npy, provider, hashseed, saved, nsaved>>

\* a start that leaves the new process with an empty directory
RestartClearsStore ==
    /\ \A p \in Procs : pc[p] = "idle"
    /\ hashseed' \in (IF provider = "hash" THEN Seeds ELSE {0})
    /\ json' = [n \in Names |-> NoJson]
    /\ npy' = [n \in Names |-> NoNpy]
    /\ pc' = [p \in Procs |-> "idle"]
    /\ call' = [p \in Procs |-> NoCall]
    /\ loc' = [p \in Procs |-> NoLoc]
    /\ ret' = [p \in Procs |-> NoRet]
    /\ hist' = [p \in Procs |-> NoHist]
    /\ prev' = NoPrev
    /\ UNCHANGED <<provider, saved, nsaved>>

\* the process stops between two calls and a new one starts over the same
\* directory: a new FileEmbeddingStore, a new hash seed
Restart ==
    /\ \A p \in Procs : pc[p] = "idle"
    /\ hashseed' \in (IF provider = "hash" THEN Seeds ELSE {0})
    /\ pc' = [p \in Procs |-> "idle"]
    /\ call' = [p \in Procs |-> NoCall]
    /\ loc' = [p \in Procs |-> NoLoc]
    /\ ret' = [p \in Procs |-> NoRet]
    /\ hist' = [p \in Procs |-> NoHist]
    /\ prev' = NoPrev
    /\ UNCHANGED <<json, npy, provider, saved, nsaved>>

\* one step of caller p
Step(p) ==
    \/ StartIndex(p)
    \/ StartBulk(p)
    \/ StartList(p)
    \/ StartFind(p)
    \/ EmbedOk(p)
    \/ EmbedFail(p)
    \/ SaveOpenMeta(p)
    \/ SaveWriteMeta(p)
    \/ SaveOpenNpy(p)
    \/ SaveWriteNpy(p)
    \/ Glob(p)
    \/ ReadMeta(p)
    \/ CheckExists(p)
    \/ LoadNpy(p)
    \/ ScanEnd(p)
    \/ Score(p)
    \/ Return(p)

\* one caller at a time, any configuration, any input, process restarts
Next ==
    \/ Step("c1")
    \/ Restart

Spec == Init /\ [][Next]_vars

\* two callers running concurrently in one process, with one item and one
\* top_k and min_score; bulk_index is called by c1 only
ConcItem == [jira_key |-> NoneVal, summary |-> "login", description |-> "fails"]

ConcCall(p, c) ==
    /\ \A i \in 1..Len(c.items) : c.items[i] = ConcItem
    /\ c.op = "find" => c.top_k = 1 /\ c.min_score = 0
    /\ c.op = "bulk" => p = "c1"

InitConc ==
    /\ Init
    /\ json[Foreign] = NoJson
    /\ provider = "remote"
    /\ hashseed = 0

NextConc ==
    \E p \in Procs : Step(p) /\ ConcCall(p, call'[p])

SpecConc == InitConc /\ [][NextConc]_vars

TypeOK ==
    /\ \A n \in Names : json[n].st \in {NoFile, Partial, Complete}
    /\ \A n \in Names : npy[n].st \in {NoFile, Partial, Complete}
    /\ \A p \in Procs : Len(ret[p].candidates) <= MaxIds

\* =================================================================== claims
Finished(p, op) == pc[p] = "done" /\ call[p].op = op

CandidateIds(p) == {ret[p].candidates[i].id : i \in 1..Len(ret[p].candidates)}

\* C1: when find_similar is called with store_query=True, the id of the
\* record it persists for the query (the id of the returned query record)
\* is not the id of any returned candidate.
C1_QueryNotAmongCandidates ==
    \A p \in Procs :
        Finished(p, "find") /\ call[p].store_query
            => /\ ret[p].query_id \in hist[p].wrote
               /\ ret[p].query_id \notin CandidateIds(p)

\* a find_similar with store_query=True has returned candidates
C1_Witness ==
    \E p \in Procs :
        /\ Finished(p, "find") /\ call[p].store_query
        /\ ret[p].candidates # <<>>
        /\ ret[p].query_id \in Ids

\* the query vector of the call of p
QueryVec(p) == Embed(provider, hashseed, TextTokens(call[p].items[1]))

\* the score find_similar gives the record saved under id n
ScoreOf(p, n) == CosineSimilarity(QueryVec(p), F32Vec(saved[n].embedding))

\* the saved records that pass the threshold of the call of p
Passing(p) == {n \in hist[p].seen : ScoreOf(p, n) >= call[p].min_score}

Min(a, b) == IF a < b THEN a ELSE b

\* C2: for top_k >= 0 the returned candidates are in non-increasing score
\* order, each has score >= min_score, there are at most top_k of them, and
\* they are exactly the first top_k of the stored records that pass the
\* threshold: distinct records of the store with their scores, as many as
\* top_k allows, and no record left out scores higher than one returned.
C2_RankedThresholdTopK ==
    \A p \in Procs :
        Finished(p, "find") /\ call[p].top_k >= 0
            => LET c == ret[p].candidates
               IN  /\ \A i \in 1..Len(c) :
                         /\ c[i].id \in Passing(p)
                         /\ c[i].score = ScoreOf(p, c[i].id)
                         /\ c[i].score >= call[p].min_score
                   /\ \A i, j \in 1..Len(c) :
                         /\ i < j => c[i].score >= c[j].score
                         /\ i # j => c[i].id # c[j].id
                   /\ Len(c) <= call[p].top_k
                   /\ Len(c) = Min(call[p].top_k, Cardinality(Passing(p)))
                   /\ \A n \in Passing(p) \ CandidateIds(p) :
                         \A i \in 1..Len(c) : ScoreOf(p, n) <= c[i].score

\* top_k = 2 candidates with different scores have been returned
C2_Witness ==
    \E p \in Procs :
        /\ Finished(p, "find") /\ call[p].top_k = 2
        /\ Len(ret[p].candidates) = 2
        /\ ret[p].candidates[1].score > ret[p].candidates[2].score

\* C3: find_similar with top_k <= 0 returns an empty candidate list (and
\* does not fail).
C3_NonPositiveTopKGivesEmpty ==
    \A p \in Procs :
        Finished(p, "find") /\ call[p].top_k <= 0 => ret[p].candidates = <<>>

\* the ids save() has returned so far
SavedIds == {n \in Ids : saved[n] # NoSave}

Abs(x) == IF x < 0 THEN -x ELSE x

\* record r is what save() was given when it returned id n, the embedding
\* compared by SameVec
RoundTrip(r, n, SameVec(_, _)) ==
    /\ r.id = n
    /\ r.jira_key = saved[n].jira_key
    /\ r.summary = saved[n].summary
    /\ r.description = saved[n].description
    /\ SameVec(r.embedding, saved[n].embedding)

Identical(got, given) == got = given

\* equal up to the conversion to float32
WithinFloat32(got, given) ==
    /\ got = F32Vec(given)
    /\ \A i \in 1..Len(given) : 2 * Abs(got[i] - given[i]) <= Grain

\* C4 as stated: a list made after save() has returned, also by a new
\* process, holds a record with the id save() returned and the very key,
\* summary, description and embedding save() was given.
C4_RoundTripIdentical ==
    \A p \in Procs :
        Finished(p, "list")
            => \A n \in hist[p].seen :
                  \E i \in 1..Len(ret[p].records) :
                      RoundTrip(ret[p].records[i], n, Identical)

\* C4 amended: a list made after save() has returned, also by a new process,
\* holds a record with the id save() returned, the same key, summary and
\* description, and the embedding save() was given converted to float32:
\* equal to it within the rounding of that conversion, and identical to it
\* when the values given are float32 values, as the hash provider's are.
C4_RoundTripFloat32 ==
    \A p \in Procs :
        Finished(p, "list")
            => \A n \in hist[p].seen :
                  \E i \in 1..Len(ret[p].records) :
                      /\ RoundTrip(ret[p].records[i], n, WithinFloat32)
                      /\ saved[n].embedding = F32Vec(saved[n].embedding)
                            => RoundTrip(ret[p].records[i], n, Identical)

\* a list has returned a record whose embedding save() had to round
C4_Witness ==
    \E p \in Procs :
        /\ Finished(p, "list")
        /\ \E n \in hist[p].seen : saved[n].embedding # F32Vec(saved[n].embedding)
        /\ \E n \in hist[p].seen : saved[n].embedding = F32Vec(saved[n].embedding)

\* the records a scan of p holds or has returned
Scanned(p) ==
    {loc[p].issues[i] : i \in 1..Len(loc[p].issues)}
        \cup {ret[p].records[i] : i \in 1..Len(ret[p].records)}

\* C5: while save() calls are in flight, a scan holds and returns only
\* records whose metadata unit and vector unit are both completely written,
\* with the whole embedding; a record it has found incomplete is skipped,
\* and list_indexed does not fail.
C5_ScanSeesOnlyCompleteRecords ==
    \A p \in Procs :
        /\ call[p].op \in {"list", "find"}
              => \A r \in Scanned(p) :
                    /\ json[r.id].st = Complete
                    /\ npy[r.id].st = Complete
                    /\ r.embedding = npy[r.id].data
                    /\ Len(r.embedding) = Dim
                    /\ r.id \notin hist[p].skipped
        /\ Finished(p, "find") => \A n \in CandidateIds(p) : npy[n].st = Complete
        /\ call[p].op = "list" => pc[p] # "failed"

\* the unit of record n that a save() in flight has yet to complete
InFlight(n) ==
    \E q \in Procs : /\ pc[q] \in {"write_meta", "open_npy", "write_npy"}
                     /\ loc[q].id = n

\* a list has returned without a record it met while the save() of that
\* record had written the metadata and not yet the whole vector
C5_Witness ==
    \E p \in Procs :
        /\ Finished(p, "list")
        /\ \E n \in hist[p].skipped :
              /\ InFlight(n)
              /\ json[n].st = Complete
              /\ npy[n].st # Complete

\* C6: the ids save() gives are pairwise distinct, across callers running
\* at the same time and across time: two calls never hold the same id, each
\* save() that has returned has a record of its own, and the units of that
\* record still hold what that save() wrote.
C6_IdsDistinctNoOverwrite ==
    /\ \A p, q \in Procs : p # q => hist[p].wrote \cap hist[q].wrote = {}
    /\ Cardinality(SavedIds) = nsaved
    /\ \A n \in SavedIds :
          /\ json[n] = [st |-> Complete, meta |-> Metadata(n, saved[n])]
          /\ npy[n] = [st |-> Complete, data |-> F32Vec(saved[n].embedding)]
    /\ \A p \in Procs :
          LET recs == loc[p].indexed \o ret[p].records
          IN  call[p].op \in {"index", "bulk"}
                 => \A i, j \in 1..Len(recs) : i # j => recs[i].id # recs[j].id

\* two callers are inside save() at the same time, each with its own id
C6_Witness ==
    \E p, q \in Procs :
        /\ p # q
        /\ pc[p] \in {"write_meta", "open_npy", "write_npy"}
        /\ pc[q] \in {"write_meta", "open_npy", "write_npy"}
        /\ loc[p].id \in Ids /\ loc[q].id \in Ids

\* the metadata unit <n>.json stands for a record all() accepts
Valid(n) ==
    /\ json[n].st = Complete
    /\ ~json[n].meta.legacy
    /\ json[n].meta.id # NoID
    /\ json[n].meta.summary # Missing
    /\ npy[json[n].meta.id].st = Complete

Corrupt(n) == json[n].st # NoFile /\ ~Valid(n)

\* C7: over a directory with valid and corrupt records list_indexed does
\* not fail and returns exactly the valid records, each once and as its
\* units hold it.
C7_ListReturnsExactlyValid ==
    \A p \in Procs :
        /\ call[p].op = "list" => pc[p] # "failed"
        /\ Finished(p, "list")
              => LET recs == ret[p].records
                     valid == {n \in Names : Valid(n)}
                 IN  /\ Len(recs) = Cardinality(valid)
                     /\ {recs[i].id : i \in 1..Len(recs)}
                            = {json[n].meta.id : n \in valid}
                     /\ \A i \in 1..Len(recs) :
                           /\ Valid(recs[i].id)
                           /\ Metadata(recs[i].id, recs[i]) = json[recs[i].id].meta
                           /\ recs[i].embedding = npy[recs[i].id].data

\* a list over two valid records and a corrupt one has returned
C7_Witness ==
    \E p \in Procs :
        /\ Finished(p, "list")
        /\ Len(ret[p].records) = 2
        /\ \E n \in Names : Corrupt(n)

\* C8: when the provider fails in index_issue or find_similar the call ends
\* with the error and without a result, the provider has been called once,
\* and the call has written no unit: every record of the store is a whole
\* record of a save() that returned.
C8_ProviderFailureLeavesStore ==
    \A p \in Procs :
        pc[p] = "failed" /\ call[p].op \in {"index", "find"}
            => /\ hist[p].embeds = 1
               /\ hist[p].wrote = {}
               /\ ret[p] = NoRet
               /\ \A q \in Procs \ {p} : pc[q] = "idle"
                     => \A n \in Ids :
                           \/ json[n].st = NoFile /\ npy[n].st = NoFile
                           \/ /\ n \in SavedIds
                              /\ json[n].st = Complete /\ npy[n].st = Complete

\* find_similar has failed in the provider over a store that holds records
C8_Witness ==
    \E p \in Procs :
        /\ pc[p] = "failed" /\ call[p].op = "find" /\ call[p].store_query
        /\ SavedIds # {}

C10_StoreQueryFrame ==
    \A p \in Procs :
        Finished(p, "find")
            => IF call[p].store_query
               THEN /\ hist[p].wrote = {ret[p].query_id}
                    /\ ret[p].query_id \in SavedIds \ hist[p].seen
                    /\ saved[ret[p].query_id] =
                          [jira_key |-> call[p].items[1].jira_key,
                           summary |-> call[p].items[1].summary,
                           description |-> call[p].items[1].description,
                           embedding |-> QueryVec(p)]
                    /\ Valid(ret[p].query_id)
                    /\ SavedIds = hist[p].seen \cup {ret[p].query_id}
               ELSE /\ hist[p].wrote = {}
                    /\ ret[p].query_id = TempQuery
                    /\ TempQuery \notin Ids
                    /\ SavedIds = hist[p].seen

\* a query has been saved although min_score was above every score and no
\* candidate was returned from a store that holds records
C10_Witness ==
    \E p \in Procs :
        /\ Finished(p, "find") /\ call[p].store_query
        /\ call[p].min_score > ScoreScale
        /\ ret[p].candidates = <<>>
        /\ hist[p].seen # {}

\* the records bulk_index has indexed so far, or has returned
Indexed(p) == IF pc[p] = "done" THEN ret[p].records ELSE loc[p].indexed

\* C11: bulk_index indexes its items one by one in input order and returns
\* the new records in that order: at every moment the records it has are
\* those of the first items, each persisted whole under an id of its own,
\* and the call has written nothing else but the units of the item it is
\* saving.  When indexing item i fails, the records of the items before it
\* stay persisted and nothing of item i or of a later item is written; a
\* later list returns every record that was saved.
C11_BulkPrefixInOrder ==
    \A p \in Procs :
        /\ call[p].op = "bulk"
              => LET recs == Indexed(p)
                     ids == {recs[i].id : i \in 1..Len(recs)}
                 IN  /\ Len(recs) <= Len(call[p].items)
                     /\ pc[p] = "done" => Len(recs) = Len(call[p].items)
                     /\ Cardinality(ids) = Len(recs)
                     /\ \A i \in 1..Len(recs) :
                           /\ recs[i].id \in SavedIds
                           /\ Valid(recs[i].id)
                           /\ Metadata(recs[i].id, call[p].items[i])
                                 = json[recs[i].id].meta
                           /\ Metadata(recs[i].id, recs[i])
                                 = json[recs[i].id].meta
                           /\ F32Vec(recs[i].embedding) = npy[recs[i].id].data
                     /\ ids \subseteq hist[p].wrote
                     /\ hist[p].wrote \subseteq ids \cup {loc[p].id}
                     /\ pc[p] \in {"done", "failed", "embed", "save"}
                           => hist[p].wrote = ids
        /\ Finished(p, "list") /\ (\A q \in Procs \ {p} : pc[q] = "idle")
              => SavedIds \subseteq
                    {ret[p].records[i].id : i \in 1..Len(ret[p].records)}

\* bulk_index has failed on its second item, which differs from the first
C11_Witness ==
    \E p \in Procs :
        /\ pc[p] = "failed" /\ call[p].op = "bulk"
        /\ Len(loc[p].indexed) = 1
        /\ call[p].items[1] # call[p].items[2]

\* the scores of the saved records the call of p has found in the store
SnapshotScores(p) == {ScoreOf(p, n) : n \in hist[p].seen}

\* C12: checked_issues is the number of records read from the store and
\* equals total_issues_in_index, passed_min_score is the number of records
\* that pass the threshold, before the truncation to top_k, and the maximum,
\* minimum and average are those of the scores of the records read; on an
\* empty store there are no candidates and all of them are zero.
C12_DebugCounters ==
    \A p \in Procs :
        Finished(p, "find")
            => LET d == ret[p].debug
                   seen == hist[p].seen
               IN  /\ d.checked_issues = Cardinality(seen)
                   /\ d.total_issues_in_index = d.checked_issues
                   /\ d.passed_min_score = Cardinality(Passing(p))
                   /\ d.passed_min_score >= Len(ret[p].candidates)
                   /\ seen # {}
                         => /\ d.max_score_found \in SnapshotScores(p)
                            /\ d.min_score_found \in SnapshotScores(p)
                            /\ \A x \in SnapshotScores(p) :
                                  d.min_score_found <= x /\ x <= d.max_score_found
                            /\ d.min_score_found <= d.avg_score
                            /\ d.avg_score <= d.max_score_found
                   /\ seen = {}
                         => /\ ret[p].candidates = <<>>
                            /\ d = NoDebug

\* more records have passed the threshold than top_k has let through, and
\* the scores found differ
C12_Witness ==
    \E p \in Procs :
        /\ Finished(p, "find")
        /\ ret[p].debug.checked_issues = 2
        /\ ret[p].debug.passed_min_score > Len(ret[p].candidates)
        /\ ret[p].debug.min_score_found < ret[p].debug.max_score_found

\* the vector the provider of the current run returns for the text of the
\* saved record n
EmbedNow(n) == Embed(provider, hashseed, TextTokens(saved[n]))

\* C13: the hash-based provider returns the same vector for the same text in
\* every run: every record of the store carries the embedding that the
\* running process computes for its text, so a query with the text of a
\* record indexed in an earlier run scores that record as identical.
C13_HashEmbedSameAcrossRuns ==
    provider = "hash"
        => \A n \in SavedIds : saved[n].embedding = EmbedNow(n)

\* the ids of the records that all() has collected so far for caller p
IssueIds(p) == {loc[p].issues[i].id : i \in 1..Len(loc[p].issues)}

\* C14: find_similar reads the stored records before it persists the query,
\* with store_query true or false: while it embeds, reads and scores it has
\* written nothing; every record it collects is one whose save has
\* completed; and every candidate it returns was saved when all() returned,
\* so a record saved later, by this call or by another caller, is neither
\* scored nor returned.
C14_SnapshotBeforePersist ==
    \A p \in Procs :
        call[p].op = "find"
            => /\ pc[p] \in {"embed", "glob", "read", "exists", "load", "score"}
                     => hist[p].wrote = {}
               /\ ~call[p].store_query => hist[p].wrote = {}
               /\ IssueIds(p) \subseteq SavedIds
               /\ pc[p] \in {"read", "exists", "load"} => hist[p].snap = {}
               /\ pc[p] \in {"score", "save", "write_meta", "open_npy", "write_npy"}
                     => /\ IssueIds(p) \subseteq hist[p].snap
                        /\ hist[p].wrote \cap hist[p].snap = {}
                        /\ {loc[p].candidates[i].id : i \in 1..Len(loc[p].candidates)}
                              \subseteq hist[p].snap
               /\ pc[p] = "done"
                     => /\ CandidateIds(p) \subseteq hist[p].snap
                        /\ CandidateIds(p) \cap hist[p].wrote = {}
                        /\ ret[p].query_id \notin hist[p].snap

\* a find_similar has returned a candidate while the store holds a record
\* that another caller has saved after all() had returned to it
C14_Witness ==
    \E p \in Procs :
        /\ Finished(p, "find")
        /\ ret[p].candidates # <<>>
        /\ \E n \in SavedIds : n \notin hist[p].snap /\ n \notin hist[p].wrote

\* the ids of a sequence of records are in strictly ascending order
AscendingById(recs) ==
    \A i, j \in 1..Len(recs) : i < j => recs[i].id < recs[j].id

\* C15: list (all) returns the records in ascending order of id, the order
\* of the sorted file names, and in the result of find_similar two
\* candidates of equal score are in that order, whatever top_k is.
C15_ScanOrderBreaksTies ==
    \A p \in Procs :
        /\ AscendingById(loc[p].issues)
        /\ Finished(p, "list") => AscendingById(ret[p].records)
        /\ Finished(p, "find")
              => \A i, j \in 1..Len(ret[p].candidates) :
                    i < j /\ ret[p].candidates[i].score = ret[p].candidates[j].score
                        => ret[p].candidates[i].id < ret[p].candidates[j].id

\* a find_similar has returned two candidates of equal score, both above
\* a positive threshold
C15_Witness ==
    \E p \in Procs :
        /\ Finished(p, "find") /\ call[p].min_score > 0
        /\ Len(ret[p].candidates) = 2
        /\ ret[p].candidates[1].score = ret[p].candidates[2].score
        /\ ret[p].candidates[1].id < ret[p].candidates[2].id

\* the record that the units of n stand for, as all() builds it
RecordOf(n) ==
    [id |-> json[n].meta.id, jira_key |-> json[n].meta.jira_key,
     summary |-> json[n].meta.summary, description |-> json[n].meta.description,
     embedding |-> npy[json[n].meta.id].data]

\* one step leaves every stored record in place and as it is
StoreOnlyGrows ==
    /\ \A n \in Names :
          /\ json[n].st # NoFile => json'[n].st # NoFile
          /\ npy[n].st # NoFile => npy'[n].st # NoFile
          /\ json[n].st = Complete => json'[n] = json[n]
          /\ npy[n].st = Complete => npy'[n] = npy[n]
          /\ Valid(n) => Valid(n)' /\ RecordOf(n)' = RecordOf(n)
    /\ \A n \in SavedIds :
          /\ saved'[n] = saved[n]
          /\ Valid(n) /\ RecordOf(n).id = n
    /\ \A p \in Procs :
          Finished(p, "list")'
              => \A n \in Names :
                    Valid(n) => \E i \in 1..Len(ret'[p].records) :
                                    ret'[p].records[i] = RecordOf(n)

\* C16: the store is append-only under every sequence of index, bulk_index,
\* list and find_similar calls and across restarts: no step removes or
\* changes a unit that is completely written, a record that a list can
\* return stays one with the same id, key, summary, description and
\* embedding, and a list that returns holds every such record.
C16_AppendOnly == [][StoreOnlyGrows]_vars

\* a list of a later run has returned two records, one of them saved by an
\* earlier run of the process
C16_Witness ==
    \E p \in Procs :
        /\ Finished(p, "list")
        /\ Len(ret[p].records) = 2
        /\ provider = "hash"
        /\ \E n \in SavedIds : saved[n].embedding # EmbedNow(n)
        /\ \E n \in SavedIds : saved[n].embedding = EmbedNow(n)

====
